---- MODULE Spec2Model ----
(***************************************************************************)
(* render_math: Vec3f32 (src/vec/vec3.rs), Mat4f32 (src/mat/mat4f32.rs)    *)
(* and Rot3Df32 (src/rotor/rot3df32.rs).                                   *)
(*                                                                         *)
(* Numbers.  The library computes in f32.  The model computes in exact     *)
(* real arithmetic on the numbers (n/d)*sqrt(r), r squarefree: the         *)
(* rationals closed under the one irrational operation the code uses,      *)
(* f32::sqrt.  A sum of two numbers with different radicals is not of      *)
(* that form; no computation of the library on the inputs drawn below      *)
(* forms one.  Rounding, overflow to infinity and NaN are not modelled.    *)
(***************************************************************************)
EXTENDS Integers, Sequences, FiniteSets, TLC

VARIABLES
    debug_assertions, \* the build: cfg!(debug_assertions)
    obj,              \* which object the caller holds: "none", "Vec3f32", "Rot3Df32", "Mat4f32"
    vec,              \* the Vec3f32 object
    rot,              \* the Rot3Df32 object
    mat,              \* the Mat4f32 object
    call,             \* the last call: its name, its arguments, the receiver before it
    ret,              \* what the last call returned
    depth,            \* in-place mutations of rot since it was constructed
    unit_chain        \* rot was built by identity() or new(a, b) of unit vectors and
                      \* since then only inverted and appended unit rotors to

vars == <<debug_assertions, obj, vec, rot, mat, call, ret, depth, unit_chain>>

\* The longest chain of in-place mutations of one rotor.
MaxDepth == 2

\* Vec3f32::new is called with integer coordinates in -MaxCoord..MaxCoord.
MaxCoord == 2

---------------------------------------------------------------------------
(* f32 values: [n, d, r] is (n/d)*sqrt(r), d > 0, gcd(n, d) = 1, r          *)
(* squarefree, and zero is [0, 1, 1].                                       *)

Abs(i) == IF i < 0 THEN -i ELSE i

Sign(i) == IF i < 0 THEN -1 ELSE IF i = 0 THEN 0 ELSE 1

RECURSIVE Gcd(_, _)
Gcd(a, b) == IF b = 0 THEN a ELSE Gcd(b, a % b)

\* The largest k with k*k dividing n, searched from trial divisor k upwards.
RECURSIVE SquarePart(_, _)
SquarePart(n, k) ==
    IF k * k > n THEN 1
    ELSE IF n % (k * k) = 0 THEN k * SquarePart(n \div (k * k), k)
    ELSE SquarePart(n, k + 1)

\* (n/d)*sqrt(r) in normal form, for d # 0 and r squarefree.
F32(n, d, r) ==
    IF n = 0 THEN [n |-> 0, d |-> 1, r |-> 1]
    ELSE LET g == Gcd(Abs(n), Abs(d))
         IN  [n |-> Sign(d) * (n \div g), d |-> Abs(d) \div g, r |-> r]

Lit(n, d) == F32(n, d, 1)

Zero == Lit(0, 1)

One == Lit(1, 1)

IsRational(a) == a.r = 1

f32_neg(a) == [a EXCEPT !.n = -a.n]

f32_mul(a, b) ==
    LET g  == Gcd(a.r, b.r)
        g1 == Gcd(Abs(a.n), b.d)
        g2 == Gcd(Abs(b.n), a.d)
    IN  F32((a.n \div g1) * (b.n \div g2) * g,
            (a.d \div g2) * (b.d \div g1),
            (a.r \div g) * (b.r \div g))

\* Defined for two numbers of one radical (or a zero operand).
f32_add(a, b) ==
    IF a.n = 0 THEN b
    ELSE IF b.n = 0 THEN a
    ELSE LET r == CHOOSE q \in {a.r} : q = b.r
             l == (a.d \div Gcd(a.d, b.d)) * b.d
         IN  F32(a.n * (l \div a.d) + b.n * (l \div b.d), l, r)

f32_sub(a, b) == f32_add(a, f32_neg(b))

\* Defined for b # 0 (f32 gives an infinity or NaN for b = 0).
f32_div(a, b) ==
    LET nz == CHOOSE m \in {b.n} : m # 0
    IN  f32_mul(a, F32(Sign(nz) * b.d, Abs(nz) * b.r, b.r))

\* f32::sqrt of a rational a >= 0.
f32_sqrt(a) ==
    LET n  == CHOOSE m \in {a.n} : m >= 0 /\ a.r = 1
        k1 == SquarePart(n, 2)
        k2 == SquarePart(a.d, 2)
        q1 == n \div (k1 * k1)
        q2 == a.d \div (k2 * k2)
    IN  IF n = 0 THEN Zero ELSE F32(k1, k2 * q2, q1 * q2)

\* n1/d1 < n2/d2 for d1, d2 > 0, by continued fractions (no products).
RECURSIVE FracLess(_, _, _, _)
FracLess(n1, d1, n2, d2) ==
    LET f1 == n1 \div d1
        f2 == n2 \div d2
        r1 == n1 % d1
        r2 == n2 % d2
    IN  IF f1 # f2 THEN f1 < f2
        ELSE IF r2 = 0 THEN FALSE
        ELSE IF r1 = 0 THEN TRUE
        ELSE FracLess(d2, r2, d1, r1)

\* a < b: two rationals are compared as fractions, any other pair by sign
\* and square.
f32_lt(a, b) ==
    IF IsRational(a) /\ IsRational(b) THEN FracLess(a.n, a.d, b.n, b.d)
    ELSE IF Sign(a.n) # Sign(b.n) THEN Sign(a.n) < Sign(b.n)
    ELSE LET a2 == f32_mul(a, a)
             b2 == f32_mul(b, b)
         IN  IF a.n > 0 THEN FracLess(a2.n, a2.d, b2.n, b2.d)
             ELSE FracLess(b2.n, b2.d, a2.n, a2.d)

\* (lo..hi).contains(&x): lo <= x < hi.
RangeContains(lo, hi, x) == ~f32_lt(x, lo) /\ f32_lt(x, hi)

---------------------------------------------------------------------------
(* Vec3f32 *)

Vec3f32_new(x, y, z) == [x |-> x, y |-> y, z |-> z]

magnitude(self) ==
    f32_sqrt(f32_add(f32_add(f32_mul(self.x, self.x), f32_mul(self.y, self.y)),
                     f32_mul(self.z, self.z)))

Vec3f32_normalize(self) ==
    LET mag == magnitude(self)
    IN  [x |-> f32_div(self.x, mag), y |-> f32_div(self.y, mag), z |-> f32_div(self.z, mag)]

dot(self, v) ==
    f32_add(f32_add(f32_mul(self.x, v.x), f32_mul(self.y, v.y)), f32_mul(self.z, v.z))

vec_add(self, rhs) ==
    Vec3f32_new(f32_add(self.x, rhs.x), f32_add(self.y, rhs.y), f32_add(self.z, rhs.z))

vec_div(self, rhs) ==
    [x |-> f32_div(self.x, rhs), y |-> f32_div(self.y, rhs), z |-> f32_div(self.z, rhs)]

\* Component i (0, 1, 2) of a vector, and the vector with component i set.
Component(v, i) == IF i = 0 THEN v.x ELSE IF i = 1 THEN v.y ELSE v.z

SetComponent(v, i, c) ==
    IF i = 0 THEN [v EXCEPT !.x = c]
    ELSE IF i = 1 THEN [v EXCEPT !.y = c]
    ELSE IF i = 2 THEN [v EXCEPT !.z = c]
    ELSE v

\* perpendicular_raw with component m set to x_n, not negated.
perpendicular_raw_not_negated(self) ==
    LET m   == IF self.x # Zero THEN 0 ELSE IF self.y # Zero THEN 1 ELSE 2
        n   == (m + 1) % 3
        x_m == Component(self, m)
        x_n == Component(self, n)
    IN  SetComponent(SetComponent(Vec3f32_new(Zero, Zero, Zero), n, x_m), m, x_n)

\* perpendicular(), steps 1 to 3: the vector before it is normalized.
perpendicular_m(self) ==
    IF self.x # Zero THEN 0 ELSE IF self.y # Zero THEN 1 ELSE 2

perpendicular_n(self) == (perpendicular_m(self) + 1) % 3

perpendicular_raw(self) ==
    LET m   == perpendicular_m(self)
        n   == perpendicular_n(self)
        x_m == Component(self, m)
        x_n == Component(self, n)
    IN  SetComponent(SetComponent(Vec3f32_new(Zero, Zero, Zero), n, x_m), m, f32_neg(x_n))

\* perpendicular without step 4: the result is not normalized.
perpendicular_not_normalized(self) == perpendicular_raw(self)

perpendicular(self) == Vec3f32_normalize(perpendicular_raw(self))

---------------------------------------------------------------------------
(* Mat4f32: values is the row-major array, values[i] of the code is         *)
(* values[i + 1] here.                                                      *)

Mat4f32(values) == [values |-> values]

Mat4f32_zero == Mat4f32([i \in 1..16 |-> Zero])

Mat4f32_identity ==
    Mat4f32(<<One, Zero, Zero, Zero,
              Zero, One, Zero, Zero,
              Zero, Zero, One, Zero,
              Zero, Zero, Zero, One>>)

\* a*b + c*d + e*f + g*h, summed left to right as one element of the product.
Inner4(a, b, c, d, e, f, g, h) ==
    f32_add(f32_add(f32_add(f32_mul(a, b), f32_mul(c, d)), f32_mul(e, f)), f32_mul(g, h))

\* mul_ref with the operands exchanged: rhs * self.
mul_ref_exchanged(self, rhs) ==
    Mat4f32([i \in 1..16 |->
        LET r == (i - 1) \div 4
            c == (i - 1) % 4
        IN  Inner4(rhs.values[r * 4 + 1], self.values[c + 1],
                   rhs.values[r * 4 + 2], self.values[4 + c + 1],
                   rhs.values[r * 4 + 3], self.values[8 + c + 1],
                   rhs.values[r * 4 + 4], self.values[12 + c + 1])])

\* impl Mul for &Mat4f32
mul_ref(self, rhs) ==
    LET ax1 == self.values[1]   ax2 == self.values[2]
        ax3 == self.values[3]   ax4 == self.values[4]
        ay1 == self.values[5]   ay2 == self.values[6]
        ay3 == self.values[7]   ay4 == self.values[8]
        az1 == self.values[9]   az2 == self.values[10]
        az3 == self.values[11]  az4 == self.values[12]
        aw1 == self.values[13]  aw2 == self.values[14]
        aw3 == self.values[15]  aw4 == self.values[16]
        bx1 == rhs.values[1]    bx2 == rhs.values[2]
        bx3 == rhs.values[3]    bx4 == rhs.values[4]
        by1 == rhs.values[5]    by2 == rhs.values[6]
        by3 == rhs.values[7]    by4 == rhs.values[8]
        bz1 == rhs.values[9]    bz2 == rhs.values[10]
        bz3 == rhs.values[11]   bz4 == rhs.values[12]
        bw1 == rhs.values[13]   bw2 == rhs.values[14]
        bw3 == rhs.values[15]   bw4 == rhs.values[16]
    IN  Mat4f32(<<
            Inner4(ax1, bx1, ax2, by1, ax3, bz1, ax4, bw1),
            Inner4(ax1, bx2, ax2, by2, ax3, bz2, ax4, bw2),
            Inner4(ax1, bx3, ax2, by3, ax3, bz3, ax4, bw3),
            Inner4(ax1, bx4, ax2, by4, ax3, bz4, ax4, bw4),

            Inner4(ay1, bx1, ay2, by1, ay3, bz1, ay4, bw1),
            Inner4(ay1, bx2, ay2, by2, ay3, bz2, ay4, bw2),
            Inner4(ay1, bx3, ay2, by3, ay3, bz3, ay4, bw3),
            Inner4(ay1, bx4, ay2, by4, ay3, bz4, ay4, bw4),

            Inner4(az1, bx1, az2, by1, az3, bz1, az4, bw1),
            Inner4(az1, bx2, az2, by2, az3, bz2, az4, bw2),
            Inner4(az1, bx3, az2, by3, az3, bz3, az4, bw3),
            Inner4(az1, bx4, az2, by4, az3, bz4, az4, bw4),

            Inner4(aw1, bx1, aw2, by1, aw3, bz1, aw4, bw1),
            Inner4(aw1, bx2, aw2, by2, aw3, bz2, aw4, bw2),
            Inner4(aw1, bx3, aw2, by3, aw3, bz3, aw4, bw3),
            Inner4(aw1, bx4, aw2, by4, aw3, bz4, aw4, bw4) >>)

\* impl Mul for Mat4f32
mul(self, rhs) == mul_ref(self, rhs)

---------------------------------------------------------------------------
(* Rot3Df32 *)

Rot3Df32(s, xy, yz, zx) == [s |-> s, xy |-> xy, yz |-> yz, zx |-> zx]

identity == Rot3Df32(One, Zero, Zero, Zero)

\* The debug_assert! of new and new_exact: both magnitudes in 0.9999..1.0001.
unit_assert(a, b) ==
    /\ RangeContains(Lit(9999, 10000), Lit(10001, 10000), magnitude(a))
    /\ RangeContains(Lit(9999, 10000), Lit(10001, 10000), magnitude(b))

\* new with the sign of the second product of xy wrong.
new_xy_sum(a, b) ==
    Rot3Df32(
        f32_add(f32_add(f32_mul(b.x, a.x), f32_mul(b.y, a.y)), f32_mul(b.z, a.z)),
        f32_add(f32_mul(b.x, a.y), f32_mul(b.y, a.x)),
        f32_sub(f32_mul(b.y, a.z), f32_mul(b.z, a.y)),
        f32_sub(f32_mul(b.z, a.x), f32_mul(b.x, a.z)))

new(a, b) ==
    Rot3Df32(
        f32_add(f32_add(f32_mul(b.x, a.x), f32_mul(b.y, a.y)), f32_mul(b.z, a.z)),
        f32_sub(f32_mul(b.x, a.y), f32_mul(b.y, a.x)),
        f32_sub(f32_mul(b.y, a.z), f32_mul(b.z, a.y)),
        f32_sub(f32_mul(b.z, a.x), f32_mul(b.x, a.z)))

\* The test of new_exact for a ~= -b.
antiparallel(a, b) == RangeContains(Lit(-100001, 100000), Lit(-99999, 100000), dot(a, b))

\* new_exact_b with the sum a + b left as it is, not divided by its magnitude.
new_exact_b_sum(a, b) ==
    IF antiparallel(a, b) THEN perpendicular(a) ELSE vec_add(a, b)

\* The b that new_exact passes on to new.
new_exact_b(a, b) ==
    IF antiparallel(a, b) THEN perpendicular(a)
    ELSE LET a_plus_b == vec_add(a, b)
         IN  vec_div(a_plus_b, magnitude(a_plus_b))

new_exact(a, b) == new(a, new_exact_b(a, b))

\* invert that leaves zx as it is.
invert_xy_yz(self) ==
    [self EXCEPT !.xy = f32_neg(self.xy), !.yz = f32_neg(self.yz)]

invert(self) ==
    [self EXCEPT !.xy = f32_neg(self.xy), !.yz = f32_neg(self.yz), !.zx = f32_neg(self.zx)]

inverted(self) == invert(self)

\* rotate_vec with the sign of ty * self.yz in v.z wrong.
rotate_vec_z_sign(self, v) ==
    LET tx   == f32_sub(f32_add(f32_mul(self.s, v.x), f32_mul(self.xy, v.y)),
                        f32_mul(self.zx, v.z))
        ty   == f32_add(f32_sub(f32_mul(self.s, v.y), f32_mul(self.xy, v.x)),
                        f32_mul(self.yz, v.z))
        tz   == f32_add(f32_sub(f32_mul(self.s, v.z), f32_mul(self.yz, v.y)),
                        f32_mul(self.zx, v.x))
        txyz == f32_add(f32_add(f32_mul(self.xy, v.z), f32_mul(self.yz, v.x)),
                        f32_mul(self.zx, v.y))
    IN  [x |-> f32_add(f32_sub(f32_add(f32_mul(tx, self.s), f32_mul(ty, self.xy)),
                               f32_mul(tz, self.zx)), f32_mul(txyz, self.yz)),
         y |-> f32_add(f32_add(f32_sub(f32_mul(ty, self.s), f32_mul(tx, self.xy)),
                               f32_mul(tz, self.yz)), f32_mul(txyz, self.zx)),
         z |-> f32_add(f32_add(f32_add(f32_mul(tz, self.s), f32_mul(tx, self.zx)),
                               f32_mul(ty, self.yz)), f32_mul(txyz, self.xy))]

rotate_vec(self, v) ==
    LET tx   == f32_sub(f32_add(f32_mul(self.s, v.x), f32_mul(self.xy, v.y)),
                        f32_mul(self.zx, v.z))
        ty   == f32_add(f32_sub(f32_mul(self.s, v.y), f32_mul(self.xy, v.x)),
                        f32_mul(self.yz, v.z))
        tz   == f32_add(f32_sub(f32_mul(self.s, v.z), f32_mul(self.yz, v.y)),
                        f32_mul(self.zx, v.x))
        txyz == f32_add(f32_add(f32_mul(self.xy, v.z), f32_mul(self.yz, v.x)),
                        f32_mul(self.zx, v.y))
    IN  [x |-> f32_add(f32_sub(f32_add(f32_mul(tx, self.s), f32_mul(ty, self.xy)),
                               f32_mul(tz, self.zx)), f32_mul(txyz, self.yz)),
         y |-> f32_add(f32_add(f32_sub(f32_mul(ty, self.s), f32_mul(tx, self.xy)),
                               f32_mul(tz, self.yz)), f32_mul(txyz, self.zx)),
         z |-> f32_add(f32_sub(f32_add(f32_mul(tz, self.s), f32_mul(tx, self.zx)),
                               f32_mul(ty, self.yz)), f32_mul(txyz, self.xy))]

rotated_vec(self, v) == rotate_vec(self, v)

\* append with the sign of self.zx * r.zx in s wrong.
append_s_sign(self, r) ==
    LET s  == f32_add(f32_sub(f32_sub(f32_mul(self.s, r.s), f32_mul(self.xy, r.xy)),
                              f32_mul(self.yz, r.yz)), f32_mul(self.zx, r.zx))
        xy == f32_add(f32_sub(f32_add(f32_mul(self.s, r.xy), f32_mul(self.xy, r.s)),
                              f32_mul(self.yz, r.zx)), f32_mul(self.zx, r.yz))
        yz == f32_sub(f32_add(f32_add(f32_mul(self.s, r.yz), f32_mul(self.yz, r.s)),
                              f32_mul(self.xy, r.zx)), f32_mul(self.zx, r.xy))
        zx == f32_add(f32_sub(f32_add(f32_mul(self.s, r.zx), f32_mul(self.zx, r.s)),
                              f32_mul(self.xy, r.yz)), f32_mul(self.yz, r.xy))
    IN  Rot3Df32(s, xy, yz, zx)

append(self, r) ==
    LET s  == f32_sub(f32_sub(f32_sub(f32_mul(self.s, r.s), f32_mul(self.xy, r.xy)),
                              f32_mul(self.yz, r.yz)), f32_mul(self.zx, r.zx))
        xy == f32_add(f32_sub(f32_add(f32_mul(self.s, r.xy), f32_mul(self.xy, r.s)),
                              f32_mul(self.yz, r.zx)), f32_mul(self.zx, r.yz))
        yz == f32_sub(f32_add(f32_add(f32_mul(self.s, r.yz), f32_mul(self.yz, r.s)),
                              f32_mul(self.xy, r.zx)), f32_mul(self.zx, r.xy))
        zx == f32_add(f32_sub(f32_add(f32_mul(self.s, r.zx), f32_mul(self.zx, r.s)),
                              f32_mul(self.xy, r.yz)), f32_mul(self.yz, r.xy))
    IN  Rot3Df32(s, xy, yz, zx)

appended(self, r) == append(self, r)

Rot3Df32_normalize(self) ==
    LET mag_sqrd == f32_add(f32_add(f32_add(f32_mul(self.s, self.s),
                                            f32_mul(self.xy, self.xy)),
                                    f32_mul(self.yz, self.yz)),
                            f32_mul(self.zx, self.zx))
        mag      == f32_sqrt(mag_sqrd)
    IN  Rot3Df32(f32_div(self.s, mag), f32_div(self.xy, mag),
                 f32_div(self.yz, mag), f32_div(self.zx, mag))

\* rotation_mat with the rotated basis vectors as rows, not columns.
rotation_mat_rows(self) ==
    LET new_x == rotated_vec(self, Vec3f32_new(One, Zero, Zero))
        new_y == rotated_vec(self, Vec3f32_new(Zero, One, Zero))
        new_z == rotated_vec(self, Vec3f32_new(Zero, Zero, One))
    IN  Mat4f32(<<new_x.x, new_x.y, new_x.z, Zero,
                  new_y.x, new_y.y, new_y.z, Zero,
                  new_z.x, new_z.y, new_z.z, Zero,
                  Zero, Zero, Zero, One>>)

rotation_mat(self) ==
    LET new_x == rotated_vec(self, Vec3f32_new(One, Zero, Zero))
        new_y == rotated_vec(self, Vec3f32_new(Zero, One, Zero))
        new_z == rotated_vec(self, Vec3f32_new(Zero, Zero, One))
    IN  Mat4f32(<<new_x.x, new_y.x, new_z.x, Zero,
                  new_x.y, new_y.y, new_z.y, Zero,
                  new_x.z, new_y.z, new_z.z, Zero,
                  Zero, Zero, Zero, One>>)

---------------------------------------------------------------------------
(* The inputs of the calls.  The debug build is called with the inputs     *)
(* below; the release build, which runs the same code without the          *)
(* assertions, is called with the inputs the debug build cannot take.      *)

V3(x, y, z) == Vec3f32_new(Lit(x, 1), Lit(y, 1), Lit(z, 1))

V3Q(x, y, z, q) == Vec3f32_new(Lit(x, q), Lit(y, q), Lit(z, q))

vec_neg(v) == Vec3f32_new(f32_neg(v.x), f32_neg(v.y), f32_neg(v.z))

IntVecs == {V3(x, y, z) : x \in -MaxCoord..MaxCoord, y \in -MaxCoord..MaxCoord,
                          z \in -MaxCoord..MaxCoord}

\* (0.1, -1.0, 9999.0) of test_perpendicular.  The magnitude that the
\* debug_assert! of perpendicular() computes on it is beyond the model's
\* integers.
BigVec == Vec3f32_new(Lit(1, 10), Lit(-1, 1), Lit(9999, 1))

VecInputs == IF debug_assertions THEN IntVecs ELSE {BigVec}

\* Unit vectors with rational coordinates, each with its opposite.
UnitHalf == {V3(1, 0, 0), V3(0, 1, 0), V3Q(3, 4, 0, 5), V3Q(2, 2, 1, 3)}

UnitVecs == UnitHalf \cup {vec_neg(u) : u \in UnitHalf}

UnitPairs == (UnitHalf \X UnitVecs) \cup {<<vec_neg(u), u>> : u \in UnitHalf}

\* A unit vector with a.dot(b) = -249999/250001 against a = (1, 0, 0): not
\* opposite to a, and within 1e-5 of it.  Its magnitude is beyond the
\* model's integers.
NearOpposite == V3Q(-249999, 1000, 0, 250001)

\* Pairs with a vector that is not unit: new() and new_exact() assert in the
\* debug build; new() builds a mis-scaled rotor in the release build.
NonUnitPairs == {<<V3(1, 1, 0), V3(0, 0, 2)>>, <<V3(1, 0, 0), V3(1, 1, 0)>>}

NewInputs == IF debug_assertions THEN UnitPairs \cup NonUnitPairs ELSE NonUnitPairs

NewExactInputs ==
    IF debug_assertions THEN UnitPairs \cup NonUnitPairs
    ELSE {<<V3(1, 0, 0), NearOpposite>>}

R4(s, xy, yz, zx, q) == Rot3Df32(Lit(s, q), Lit(xy, q), Lit(yz, q), Lit(zx, q))

\* Rotors written as struct literals: unit ones, and ones that are not.
UnitRotors == {R4(1, 1, 1, 1, 2), R4(0, 0, 1, 0, 1), R4(3, 0, 4, 0, 5)}

NonUnitRotors == {R4(1, 1, 0, 0, 1), R4(2, 0, -1, 1, 1)}

RotorLiterals == IF debug_assertions THEN UnitRotors \cup NonUnitRotors ELSE {}

AppendInputs == {R4(1, 1, 1, 1, 2), R4(0, 0, 1, 0, 1), R4(1, 1, 0, 0, 1)}

RotateInputs == {V3(1, 1, 1), V3Q(1, -4, 6, 2)}

\* The vectors the properties are stated over.
ProbeVecs == {V3(1, 0, 0), V3(0, 1, 0), V3(0, 0, 1), V3(1, 1, 1), V3Q(1, -4, 6, 2)}

\* The matrix with values k+1, ..., k+16, the matrix with a single 1, and a
\* matrix with no symmetry.
Ramp(k) == Mat4f32([i \in 1..16 |-> Lit(k + i, 1)])

Single(j) == Mat4f32([i \in 1..16 |-> IF i = j THEN One ELSE Zero])

Skew == Mat4f32([i \in 1..16 |-> Lit(((i * i) % 7) - 3, (i % 3) + 1)])

MatInputs ==
    IF debug_assertions
    THEN {Mat4f32_zero, Mat4f32_identity, Ramp(0), Ramp(16), Skew}
             \cup {Single(j) : j \in {2, 7, 12, 13}}
    ELSE {}

NoVec == V3(0, 0, 0)

NoRot == R4(0, 0, 0, 0, 1)

NoCall == [op |-> "none", a |-> NoVec, b |-> NoVec, r |-> NoRot, self |-> NoRot,
           rhs |-> Mat4f32_zero]

NoRet == <<>>

---------------------------------------------------------------------------
(* The caller: it constructs one object and calls its methods. *)

Init ==
    /\ debug_assertions \in BOOLEAN
    /\ obj = "none"
    /\ vec = NoVec
    /\ rot = NoRot
    /\ mat = Mat4f32_zero
    /\ call = NoCall
    /\ ret = NoRet
    /\ depth = 0
    /\ unit_chain = FALSE

\* Vec3f32::new(x, y, z)
VecNew ==
    /\ obj = "none"
    /\ \E v \in VecInputs :
        /\ vec' = Vec3f32_new(v.x, v.y, v.z)
        /\ call' = [NoCall EXCEPT !.op = "Vec3f32::new"]
    /\ obj' = "Vec3f32"
    /\ ret' = NoRet
    /\ UNCHANGED <<debug_assertions, rot, mat, depth, unit_chain>>

\* vec.perpendicular(); a zero vec fails the debug_assert!.
Perpendicular ==
    /\ obj = "Vec3f32"
    /\ debug_assertions => magnitude(vec) # Zero
    /\ ret' = perpendicular(vec)
    /\ call' = [NoCall EXCEPT !.op = "perpendicular", !.a = vec]
    /\ UNCHANGED <<debug_assertions, obj, vec, rot, mat, depth, unit_chain>>

\* Mat4f32 { values }
MatNew ==
    /\ obj = "none"
    /\ \E m \in MatInputs :
        /\ mat' = m
        /\ call' = [NoCall EXCEPT !.op = "Mat4f32"]
    /\ obj' = "Mat4f32"
    /\ ret' = NoRet
    /\ UNCHANGED <<debug_assertions, vec, rot, depth, unit_chain>>

\* &mat * &rhs
MatMulRef ==
    /\ obj = "Mat4f32"
    /\ \E rhs \in MatInputs :
        /\ ret' = mul_ref(mat, rhs)
        /\ call' = [NoCall EXCEPT !.op = "mul_ref", !.rhs = rhs]
    /\ UNCHANGED <<debug_assertions, obj, vec, rot, mat, depth, unit_chain>>

\* mat * rhs
MatMul ==
    /\ obj = "Mat4f32"
    /\ \E rhs \in MatInputs :
        /\ ret' = mul(mat, rhs)
        /\ call' = [NoCall EXCEPT !.op = "mul", !.rhs = rhs]
    /\ UNCHANGED <<debug_assertions, obj, vec, rot, mat, depth, unit_chain>>

\* Rot3Df32::identity()
Identity ==
    /\ obj = "none"
    /\ rot' = identity
    /\ call' = [NoCall EXCEPT !.op = "identity"]
    /\ obj' = "Rot3Df32"
    /\ ret' = NoRet
    /\ depth' = 0
    /\ unit_chain' = TRUE
    /\ UNCHANGED <<debug_assertions, vec, mat>>

\* Rot3Df32 { s, xy, yz, zx }
RotorLiteral ==
    /\ obj = "none"
    /\ \E r \in RotorLiterals :
        /\ rot' = Rot3Df32(r.s, r.xy, r.yz, r.zx)
        /\ call' = [NoCall EXCEPT !.op = "Rot3Df32"]
    /\ obj' = "Rot3Df32"
    /\ ret' = NoRet
    /\ depth' = 0
    /\ unit_chain' = FALSE
    /\ UNCHANGED <<debug_assertions, vec, mat>>

\* Rot3Df32::new(a, b)
New ==
    /\ obj = "none"
    /\ \E p \in NewInputs :
        /\ debug_assertions => unit_assert(p[1], p[2])
        /\ rot' = new(p[1], p[2])
        /\ call' = [NoCall EXCEPT !.op = "new", !.a = p[1], !.b = p[2]]
        /\ unit_chain' = (p[1] \in UnitVecs /\ p[2] \in UnitVecs)
    /\ obj' = "Rot3Df32"
    /\ ret' = NoRet
    /\ depth' = 0
    /\ UNCHANGED <<debug_assertions, vec, mat>>

\* Rot3Df32::new_exact(a, b)
NewExact ==
    /\ obj = "none"
    /\ \E p \in NewExactInputs :
        /\ debug_assertions => unit_assert(p[1], p[2])
        /\ rot' = new_exact(p[1], p[2])
        /\ call' = [NoCall EXCEPT !.op = "new_exact", !.a = p[1], !.b = p[2]]
    /\ obj' = "Rot3Df32"
    /\ ret' = NoRet
    /\ depth' = 0
    /\ unit_chain' = FALSE
    /\ UNCHANGED <<debug_assertions, vec, mat>>

\* rot.invert()
Invert ==
    /\ obj = "Rot3Df32"
    /\ depth < MaxDepth
    /\ rot' = invert(rot)
    /\ call' = [NoCall EXCEPT !.op = "invert", !.self = rot]
    /\ ret' = NoRet
    /\ depth' = depth + 1
    /\ UNCHANGED <<debug_assertions, obj, vec, mat, unit_chain>>

\* rot.append(r)
RotAppend ==
    /\ obj = "Rot3Df32"
    /\ depth < MaxDepth
    /\ \E r \in AppendInputs :
        /\ rot' = append(rot, r)
        /\ call' = [NoCall EXCEPT !.op = "append", !.self = rot, !.r = r]
        /\ unit_chain' = (unit_chain /\ r \in UnitRotors)
    /\ ret' = NoRet
    /\ depth' = depth + 1
    /\ UNCHANGED <<debug_assertions, obj, vec, mat>>

\* rot.normalize(); the zero rotor is excluded by its precondition.
Normalize ==
    /\ obj = "Rot3Df32"
    /\ depth < MaxDepth
    /\ rot # NoRot
    /\ rot' = Rot3Df32_normalize(rot)
    /\ call' = [NoCall EXCEPT !.op = "normalize", !.self = rot]
    /\ ret' = NoRet
    /\ depth' = depth + 1
    /\ unit_chain' = FALSE
    /\ UNCHANGED <<debug_assertions, obj, vec, mat>>

\* rot.rotated_vec(v)
RotatedVec ==
    /\ obj = "Rot3Df32"
    /\ \E v \in RotateInputs :
        /\ ret' = rotated_vec(rot, v)
        /\ call' = [NoCall EXCEPT !.op = "rotated_vec", !.self = rot, !.a = v]
    /\ UNCHANGED <<debug_assertions, obj, vec, rot, mat, depth, unit_chain>>

\* rot.rotation_mat()
RotationMat ==
    /\ obj = "Rot3Df32"
    /\ ret' = rotation_mat(rot)
    /\ call' = [NoCall EXCEPT !.op = "rotation_mat", !.self = rot]
    /\ UNCHANGED <<debug_assertions, obj, vec, rot, mat, depth, unit_chain>>

Next ==
    \/ VecNew
    \/ Perpendicular
    \/ MatNew
    \/ MatMulRef
    \/ MatMul
    \/ Identity
    \/ RotorLiteral
    \/ New
    \/ NewExact
    \/ Invert
    \/ RotAppend
    \/ Normalize
    \/ RotatedVec
    \/ RotationMat

Spec == Init /\ [][Next]_vars

---------------------------------------------------------------------------
(* Properties. *)

rot_norm_sq(r) ==
    f32_add(f32_add(f32_add(f32_mul(r.s, r.s), f32_mul(r.xy, r.xy)), f32_mul(r.yz, r.yz)),
            f32_mul(r.zx, r.zx))

vec_norm_sq(v) == dot(v, v)

IsUnitRotor(r) == rot_norm_sq(r) = One

\* Unit vectors among the inputs (the magnitude of NearOpposite is 1 too).
IsUnitInput(v) == v \in UnitVecs \cup {NearOpposite}

Basis(i) == Vec3f32_new(IF i = 0 THEN One ELSE Zero, IF i = 1 THEN One ELSE Zero,
                        IF i = 2 THEN One ELSE Zero)

\* Element (row, col), 0-based, of a row-major matrix.
At(m, row, col) == m.values[row * 4 + col + 1]

\* Row `row` of the product of matrix m and the column vector (v, 1).
Transform(m, v, row) ==
    f32_add(f32_add(f32_add(f32_mul(At(m, row, 0), v.x), f32_mul(At(m, row, 1), v.y)),
                    f32_mul(At(m, row, 2), v.z)), At(m, row, 3))

\* The sum over k in 0..3 of a[row][k] * b[k][col].
RECURSIVE RowByColumn(_, _, _, _, _)
RowByColumn(a, b, row, col, k) ==
    IF k < 0 THEN Zero
    ELSE f32_add(RowByColumn(a, b, row, col, k - 1), f32_mul(At(a, row, k), At(b, k, col)))

\* C1: after self.append(r), rot rotates every vector as rotating by self
\* first and by r second does (and appended returns the value append leaves).
C1_AppendSelfThenR ==
    call.op = "append" =>
        /\ rot = appended(call.self, call.r)
        /\ \A v \in ProbeVecs :
               rotated_vec(rot, v) = rotated_vec(call.r, rotated_vec(call.self, v))

\* C2: the row-major matrix of rotation_mat() times the column (x, y, z, 1)
\* is (rotated_vec(v), 1); element (row, col) of the upper-left block is
\* component row of the rotated basis vector col; the last row and the last
\* column are (0, 0, 0, 1).
C2_RotationMatTransforms ==
    call.op = "rotation_mat" =>
        /\ \A v \in ProbeVecs :
               /\ \A row \in 0..2 :
                      Transform(ret, v, row) = Component(rotated_vec(rot, v), row)
               /\ Transform(ret, v, 3) = One
        /\ \A row \in 0..2, col \in 0..2 :
               At(ret, row, col) = Component(rotated_vec(rot, Basis(col)), row)
        /\ \A i \in 0..2 : At(ret, 3, i) = Zero /\ At(ret, i, 3) = Zero
        /\ At(ret, 3, 3) = One

C2_Witness ==
    /\ call.op = "rotation_mat"
    /\ IsUnitRotor(rot)
    /\ At(ret, 0, 1) # At(ret, 1, 0)
    /\ At(ret, 1, 2) # At(ret, 2, 1)

\* C3: invert negates xy, yz and zx and keeps s (inverted returns the same),
\* and for a unit rotor, rotating by it and then by its inverse, or the
\* other way round, gives every vector back.
C3_InvertRoundTrip ==
    call.op = "invert" =>
        /\ rot.s = call.self.s
        /\ rot.xy = f32_neg(call.self.xy)
        /\ rot.yz = f32_neg(call.self.yz)
        /\ rot.zx = f32_neg(call.self.zx)
        /\ rot = inverted(call.self)
        /\ IsUnitRotor(call.self) =>
               \A v \in ProbeVecs :
                   /\ rotated_vec(rot, rotated_vec(call.self, v)) = v
                   /\ rotated_vec(call.self, rotated_vec(rot, v)) = v

C3_Witness ==
    /\ call.op = "invert"
    /\ IsUnitRotor(call.self)
    /\ call.self.xy # Zero
    /\ call.self.yz # Zero
    /\ call.self.zx # Zero
    /\ rot # call.self

\* The unit vector that bisects a and b.
Bisector(a, b) == vec_div(vec_add(a, b), magnitude(vec_add(a, b)))

\* C4 as stated: for unit a and b with b # -a, new_exact(a, b) rotates a
\* onto b and is new(a, bisector).
C4_NewExactUnlessOpposite ==
    (call.op = "new_exact" /\ IsUnitInput(call.a) /\ IsUnitInput(call.b)
        /\ call.b # vec_neg(call.a)) =>
        /\ rotated_vec(rot, call.a) = call.b
        /\ rot = new(call.a, Bisector(call.a, call.b))

\* C4, amended: for unit a and b whose dot product is outside
\* -1.00001..-0.99999, new_exact(a, b) is new(a, bisector) and rotates a
\* onto b, by the single angle between them.
C4_NewExactOutsideTolerance ==
    (call.op = "new_exact" /\ IsUnitInput(call.a) /\ IsUnitInput(call.b)
        /\ ~RangeContains(Lit(-100001, 100000), Lit(-99999, 100000), dot(call.a, call.b))) =>
        /\ rotated_vec(rot, call.a) = call.b
        /\ rot = new(call.a, Bisector(call.a, call.b))

C4_Witness ==
    /\ call.op = "new_exact"
    /\ call.a = V3(1, 0, 0)
    /\ call.b = V3(0, 1, 0)
    /\ rotated_vec(rot, V3(1, 0, 0)) = V3(0, 1, 0)

\* C5: for a unit vector a, new_exact(a, -a) is new(a, a.perpendicular()),
\* a rotation by 180 degrees (s = 0) about an axis perpendicular to a, and
\* rotates a onto -a.
C5_NewExactOpposite ==
    (call.op = "new_exact" /\ IsUnitInput(call.a) /\ call.b = vec_neg(call.a)) =>
        /\ rot = new(call.a, perpendicular(call.a))
        /\ rot.s = Zero
        /\ dot(Vec3f32_new(rot.yz, rot.zx, rot.xy), call.a) = Zero
        /\ IsUnitRotor(rot)
        /\ rotated_vec(rot, call.a) = call.b

C5_Witness ==
    /\ call.op = "new_exact"
    /\ call.a = V3Q(2, 2, 1, 3)
    /\ call.b = V3Q(-2, -2, -1, 3)
    /\ rotated_vec(rot, call.a) = call.b

\* C6: for a non-zero v, with m the index of its first non-zero component
\* and n = (m + 1) mod 3, perpendicular() returns, normalized, the vector
\* with component n = v[m] and component m = -v[n]: that vector is not zero
\* and its dot product with v is 0, and the result has magnitude 1.
C6_Perpendicular ==
    call.op = "perpendicular" =>
        \E m \in 0..2 :
            /\ Component(call.a, m) # Zero
            /\ \A j \in 0..2 : j < m => Component(call.a, j) = Zero
            /\ LET n   == (m + 1) % 3
                   raw == [i \in 0..2 |->
                              IF i = m THEN f32_neg(Component(call.a, n))
                              ELSE IF i = n THEN Component(call.a, m)
                              ELSE Zero]
                   len == f32_sqrt(f32_add(f32_add(f32_mul(raw[0], raw[0]),
                                                   f32_mul(raw[1], raw[1])),
                                           f32_mul(raw[2], raw[2])))
               IN  /\ \E i \in 0..2 : raw[i] # Zero
                   /\ dot(Vec3f32_new(raw[0], raw[1], raw[2]), call.a) = Zero
                   /\ \A i \in 0..2 : f32_mul(Component(ret, i), len) = raw[i]
                   /\ magnitude(ret) = One
                   /\ dot(ret, call.a) = Zero

C6_Witness ==
    /\ call.op = "perpendicular"
    /\ call.a.x = Zero
    /\ call.a.y # Zero
    /\ call.a.z # Zero
    /\ ret.x = Zero

\* C7: element (r, c) of a product is the sum over k of a[r][k] * b[k][c],
\* by value and by reference, and the product of the matrices 1..16 and
\* 17..32 is the one of the mat_multiplication test.
C7_MatMul ==
    call.op \in {"mul", "mul_ref"} =>
        /\ \A r \in 0..3, c \in 0..3 : At(ret, r, c) = RowByColumn(mat, call.rhs, r, c, 3)
        /\ (mat = Ramp(0) /\ call.rhs = Ramp(16)) =>
               ret.values = <<Lit(250, 1), Lit(260, 1), Lit(270, 1), Lit(280, 1),
                              Lit(618, 1), Lit(644, 1), Lit(670, 1), Lit(696, 1),
                              Lit(986, 1), Lit(1028, 1), Lit(1070, 1), Lit(1112, 1),
                              Lit(1354, 1), Lit(1412, 1), Lit(1470, 1), Lit(1528, 1)>>

C7_Witness ==
    /\ call.op = "mul"
    /\ mat = Ramp(0)
    /\ call.rhs = Ramp(16)
    /\ At(ret, 3, 3) = Lit(1528, 1)

\* C8: new(a, a) of a unit vector a is identity(): s = 1, xy = yz = zx = 0;
\* it and identity() leave every vector as it is.
C8_NoRotation ==
    /\ (call.op = "new" /\ IsUnitInput(call.a) /\ call.b = call.a) =>
           /\ rot.s = One /\ rot.xy = Zero /\ rot.yz = Zero /\ rot.zx = Zero
           /\ rot = identity
           /\ \A v \in ProbeVecs : rotated_vec(rot, v) = v
    /\ call.op = "identity" => \A v \in ProbeVecs : rotated_vec(rot, v) = v

C8_Witness ==
    /\ call.op = "new"
    /\ call.a = V3Q(2, 2, 1, 3)
    /\ call.b = call.a
    /\ rot = identity

\* C9: rotated_vec by a unit rotor keeps the squared length of the vector;
\* by any rotor it scales the squared length by (s^2 + xy^2 + yz^2 + zx^2)^2.
C9_LengthPreserved ==
    call.op = "rotated_vec" =>
        /\ IsUnitRotor(rot) => vec_norm_sq(ret) = vec_norm_sq(call.a)
        /\ vec_norm_sq(ret) =
               f32_mul(f32_mul(rot_norm_sq(rot), rot_norm_sq(rot)), vec_norm_sq(call.a))

C9_Witness ==
    /\ call.op = "rotated_vec"
    /\ IsUnitRotor(rot)
    /\ rot.s # One
    /\ ret # call.a
    /\ depth > 0

\* C10: the squared norm of append's result is the product of the squared
\* norms of self and r, invert keeps the squared norm, and a rotor built by
\* identity() or new(a, b) of unit vectors and then only inverted and
\* appended unit rotors to has squared norm 1.
C10_UnitChain ==
    /\ call.op = "append" =>
           rot_norm_sq(rot) = f32_mul(rot_norm_sq(call.self), rot_norm_sq(call.r))
    /\ call.op = "invert" => rot_norm_sq(rot) = rot_norm_sq(call.self)
    /\ (obj = "Rot3Df32" /\ unit_chain) => IsUnitRotor(rot)

C10_Witness ==
    /\ obj = "Rot3Df32"
    /\ unit_chain
    /\ depth = MaxDepth
    /\ call.op = "append"
    /\ call.self.zx # Zero
    /\ rot.xy # Zero

====
